---------------------------- MODULE Spec2Model ----------------------------
(***************************************************************************)
(* A model of tg-summarizer (summarize.py): the Selector                   *)
(* (fetch_unread_messages, fetch_last_messages), the Batcher               *)
(* (chunk_messages), the Reducer (summarize_chat) and the control flow of  *)
(* main().                                                                 *)
(*                                                                         *)
(* Strings.  Short strings (chat names, the --chat filter, sender names,   *)
(* summaries, prompts) are sequences of one-character strings.  A message  *)
(* text is a unit string repeated a number of times, [body, repeat], as in *)
(* tests.py ("Hello " * 100); its length is Len(body) * repeat, and it is  *)
(* empty (falsy) when that length is 0.  None is the empty string: the     *)
(* code only ever tests these values for truthiness.                       *)
(***************************************************************************)
EXTENDS Integers, Sequences, FiniteSets, TLC

VARIABLES
    pc,             \* control position of the program
    args,           \* the parsed command line (argparse namespace)
    env,            \* environment: credentials, session file, ollama
    account,        \* what the Telegram account holds (the message source)
    exit_code,      \* process exit status (-1 while running)
    checks,         \* startup checks passed so far, in order
    console,        \* what main() and the checks printed, in order
    \* ---- chunk_messages locals
    messages,       \* its argument
    max_chars,      \* its argument
    chunks, current_chunk, current_size,
    ci,             \* number of messages the for loop has consumed, plus 1
    \* ---- selector locals (both fetch functions)
    limit,          \* fetch_last_messages' parameter
    messages_by_chat, chats_processed, total_messages, total_fetched,
    di,             \* number of dialogs get_dialogs() has delivered
    hist,           \* the get_chat_history iterator being drained
    \* ---- main() summarisation loop and summarize_chat locals
    si,             \* index of the current item of messages_by_chat
    s_chunks, bi, summaries, results, reported,
    failed,         \* conversations during which ollama.generate raised
    \* ---- calls made to the collaborators
    dialogs_calls,  \* number of client.get_dialogs() calls
    history_calls,  \* client.get_chat_history calls: chat id, name, limit,
                    \* how many of the messages delivered carried text (in
                    \* unread mode also the dialog's unread count and the
                    \* messages accepted before the call)
    gen_calls       \* ollama.generate calls: conversation, prompt, response

vars == << pc, args, env, account, exit_code, checks, console,
           messages, max_chars, chunks, current_chunk, current_size, ci,
           limit, messages_by_chat, chats_processed, total_messages,
           total_fetched, di, hist,
           si, s_chunks, bi, summaries, results, reported, failed,
           dialogs_calls, history_calls, gen_calls >>

chunkVars == << messages, max_chars, chunks, current_chunk, current_size, ci >>
selVars   == << limit, messages_by_chat, chats_processed, total_messages,
                total_fetched, di, hist >>
sumVars   == << si, s_chunks, bi, summaries, results, reported, failed >>
callVars  == << dialogs_calls, history_calls, gen_calls >>
mainVars  == << args, env, account, exit_code, checks, console >>

----------------------------------------------------------------------------
(* Bounds of the model *)

MaxBucket == 3      \* longest bucket given to chunk_messages on its own
MaxRepeat == 3      \* longest message text there (repetitions of the unit)
MaxBudget == 7      \* largest max_chars there

----------------------------------------------------------------------------
(* Program constants *)

MAX_CONTEXT_CHARS == 6000
DEFAULT_MAX_CHATS == 5
DEFAULT_MAX_MESSAGES == 100
UNREAD_PER_CHAT_CAP == 50

----------------------------------------------------------------------------
(* Sequences and strings *)

Min(a, b) == IF a <= b THEN a ELSE b

SeqsUpTo(S, n) == UNION { [1..k -> S] : k \in 0..n }

RECURSIVE Flatten(_)
Flatten(ss) == IF ss = << >> THEN << >> ELSE Head(ss) \o Flatten(Tail(ss))

RECURSIVE SumSeq(_)
SumSeq(ns) == IF ns = << >> THEN 0 ELSE Head(ns) + SumSeq(Tail(ns))

\* len(text) for a message text
TextLen(text) == Len(text.body) * text.repeat

----------------------------------------------------------------------------
(* chunk_messages *)

\* msg_text = f"{sender}: {text}" if sender else text;  msg_size = len(msg_text)
MsgSize(msg) ==
    IF msg.sender # << >>
    THEN Len(msg.sender) + 2 + TextLen(msg.text)
    ELSE TextLen(msg.text)

\* faulty variant: the size of the incoming message is left out of the test
ShouldCloseIgnoringMsg(st, msg_size, budget) ==
    st.current_size > budget /\ st.current_chunk # << >>

\* faulty variant: equality where the code compares with >
ShouldCloseOnEquality(st, msg_size, budget) ==
    st.current_size + msg_size = budget /\ st.current_chunk # << >>

\* if current_size + msg_size > max_chars and current_chunk:
ShouldClose(st, msg_size, budget) ==
    st.current_size + msg_size > budget /\ st.current_chunk # << >>

\* faulty variant: the closed chunk is not appended to chunks
ChunkIterDropsClosed(st, msg, budget) ==
    LET msg_size == MsgSize(msg)
        base == IF ShouldClose(st, msg_size, budget)
                THEN [chunks |-> st.chunks, current_chunk |-> << >>,
                      current_size |-> 0]
                ELSE st
    IN  [chunks        |-> base.chunks,
         current_chunk |-> Append(base.current_chunk, msg),
         current_size  |-> base.current_size + msg_size]

\* One iteration of `for msg in messages` on the locals st
ChunkIter(st, msg, budget) ==
    LET msg_size == MsgSize(msg)
        base == IF ShouldClose(st, msg_size, budget)
                THEN [chunks |-> Append(st.chunks, st.current_chunk),
                      current_chunk |-> << >>,
                      current_size |-> 0]
                ELSE st
    IN  [chunks        |-> base.chunks,
         current_chunk |-> Append(base.current_chunk, msg),
         current_size  |-> base.current_size + msg_size]

\* faulty variant: the open chunk is appended even when it is empty
ChunkReturnAlwaysAppends(st) == Append(st.chunks, st.current_chunk)

\* if current_chunk: chunks.append(current_chunk);  return chunks
ChunkReturn(st) ==
    IF st.current_chunk # << >>
    THEN Append(st.chunks, st.current_chunk)
    ELSE st.chunks

ChunkStart == [chunks |-> << >>, current_chunk |-> << >>, current_size |-> 0]

RECURSIVE ChunkLoopFrom(_, _, _)
ChunkLoopFrom(st, msgs, budget) ==
    IF msgs = << >> THEN st
    ELSE ChunkLoopFrom(ChunkIter(st, Head(msgs), budget), Tail(msgs), budget)

\* chunk_messages(messages, max_chars) as a function
ChunkMessages(msgs, budget) == ChunkReturn(ChunkLoopFrom(ChunkStart, msgs, budget))

----------------------------------------------------------------------------
(* chunk_messages run on its own, one loop iteration per step *)

ChunkSenders == { << >>, <<"A">> }
ChunkTexts   == { [body |-> <<"x">>, repeat |-> n] : n \in 1..MaxRepeat }
ChunkRaw     == [sender : ChunkSenders, text : ChunkTexts]

NoHist == [id |-> 0, name |-> << >>, limit |-> 0, yielded |-> 0]

MainIdle == /\ args = [unread |-> FALSE, last |-> 0, chat |-> << >>,
                       list_chats |-> FALSE, max_chats |-> DEFAULT_MAX_CHATS,
                       max_messages |-> DEFAULT_MAX_MESSAGES]
            /\ env = [api_id |-> "", api_hash |-> "", session_exists |-> FALSE,
                      ollama_up |-> FALSE]
            /\ account = [chats |-> {}, unread |-> {}, msgs |-> {},
                          dialogs |-> 0, history |-> 0]
            /\ exit_code = -1
            /\ checks = << >>
            /\ console = << >>

SelIdle == /\ limit = 0 /\ messages_by_chat = << >>
           /\ chats_processed = 0 /\ total_messages = 0 /\ total_fetched = 0
           /\ di = 0 /\ hist = NoHist

SumIdle == /\ si = 1 /\ s_chunks = << >> /\ bi = 1 /\ summaries = << >>
           /\ results = << >> /\ reported = << >> /\ failed = << >>

CallIdle == dialogs_calls = 0 /\ history_calls = << >> /\ gen_calls = << >>

ChunkIdle == /\ messages = << >> /\ max_chars = MAX_CONTEXT_CHARS
             /\ chunks = << >> /\ current_chunk = << >> /\ current_size = 0
             /\ ci = 1

InitChunk ==
    /\ pc = "chunk_loop"
    /\ \E raw \in SeqsUpTo(ChunkRaw, MaxBucket) :
          messages = [i \in 1..Len(raw) |->
                        [sender |-> raw[i].sender, text |-> raw[i].text,
                         date |-> i]]
    /\ max_chars \in 1..MaxBudget
    /\ chunks = << >> /\ current_chunk = << >> /\ current_size = 0
    /\ ci = 1
    /\ MainIdle /\ SelIdle /\ SumIdle /\ CallIdle

\* for msg in messages: ...
ChunkLoop ==
    /\ pc = "chunk_loop"
    /\ ci <= Len(messages)
    /\ LET st == ChunkIter([chunks |-> chunks, current_chunk |-> current_chunk,
                            current_size |-> current_size],
                           messages[ci], max_chars)
       IN  /\ chunks' = st.chunks
           /\ current_chunk' = st.current_chunk
           /\ current_size' = st.current_size
    /\ ci' = ci + 1
    /\ UNCHANGED << pc, messages, max_chars, mainVars,
                    selVars, sumVars, callVars >>

\* loop exhausted: the trailing append and the return
ChunkFinish ==
    /\ pc = "chunk_loop"
    /\ ci > Len(messages)
    /\ chunks' = ChunkReturn([chunks |-> chunks, current_chunk |-> current_chunk,
                              current_size |-> current_size])
    /\ pc' = "chunk_done"
    /\ UNCHANGED << messages, max_chars, current_chunk, current_size, ci,
                    mainVars, selVars, sumVars, callVars >>

NextChunk == ChunkLoop \/ ChunkFinish

SpecChunk == InitChunk /\ [][NextChunk]_vars

----------------------------------------------------------------------------
(* Claims about chunk_messages *)

BatchSize(batch) == SumSeq([i \in 1..Len(batch) |-> MsgSize(batch[i])])

\* C1: partition totality.  Concatenating the batches chunk_messages returns,
\* in order, gives back the bucket exactly, and the batch sizes sum to its
\* length.  While the loop runs, the closed batches followed by the open one
\* are exactly the messages consumed so far.
C1_PartitionTotality ==
    /\ pc = "chunk_loop" =>
          Flatten(chunks) \o current_chunk = SubSeq(messages, 1, ci - 1)
    /\ pc = "chunk_done" =>
          /\ Flatten(chunks) = messages
          /\ SumSeq([i \in 1..Len(chunks) |-> Len(chunks[i])]) = Len(messages)

C1_Witness ==
    /\ pc = "chunk_done"
    /\ Len(chunks) = 2
    /\ Len(chunks[1]) = 2
    /\ Len(messages) = 3

\* C2: budget respect with singleton exception.  Every returned batch has a
\* formatted size of at most max_chars, or is a single record that alone
\* exceeds max_chars; hence a bucket of two or more records whose total
\* formatted size exceeds max_chars is split into at least two batches.
C2_BudgetRespect ==
    pc = "chunk_done" =>
        /\ \A b \in 1..Len(chunks) :
              \/ BatchSize(chunks[b]) <= max_chars
              \/ Len(chunks[b]) = 1 /\ MsgSize(chunks[b][1]) > max_chars
        /\ (Len(messages) >= 2 /\ BatchSize(messages) > max_chars)
              => Len(chunks) >= 2

C2_Witness ==
    /\ pc = "chunk_done"
    /\ \E b \in 1..Len(chunks) :
          Len(chunks[b]) = 1 /\ MsgSize(chunks[b][1]) > max_chars
    /\ \E b \in 1..Len(chunks) :
          Len(chunks[b]) = 2 /\ BatchSize(chunks[b]) = max_chars

\* C3: monotonic batch count.  For budgets max_chars <= c2 the bucket is cut
\* into at least as many batches under max_chars as under c2.
C3_MonotonicBatchCount ==
    pc = "chunk_done" =>
        \A c2 \in max_chars..MaxBudget :
            Len(chunks) >= Len(ChunkMessages(messages, c2))

C3_Witness ==
    /\ pc = "chunk_done"
    /\ Len(chunks) = 3
    /\ \E c2 \in max_chars..MaxBudget : Len(ChunkMessages(messages, c2)) = 2
    /\ \E c2 \in max_chars..MaxBudget : Len(ChunkMessages(messages, c2)) = 1

----------------------------------------------------------------------------
(* Short strings: str.lower() and the `in` operator *)

\* The alphabet of chat names and filters; "\n" and " " are whitespace
LowerChar(c) ==
    CASE c = "A" -> "a"
      [] c = "B" -> "b"
      [] c = "U" -> "u"
      [] OTHER   -> c

\* s.lower()
Lower(s) == [i \in 1..Len(s) |-> LowerChar(s[i])]

\* needle in hay
Contains(needle, hay) ==
    \E k \in 0..(Len(hay) - Len(needle)) :
        SubSeq(hay, k + 1, k + Len(needle)) = needle

----------------------------------------------------------------------------
(* The message source: dialogs and messages as pyrogram delivers them *)

MaxDialogs  == 3    \* dialogs client.get_dialogs() delivers at most
MaxHistory  == 2    \* messages a chat's history holds at most
MaxUnread   == 2    \* largest unread_messages_count
MaxChats    == 2    \* largest --max-chats
MaxMessages == 2    \* largest --max-messages
MaxLast     == 2    \* largest --last

Unknown == <<"U", "n", "k", "n", "o", "w", "n">>

\* dialog.chat: title and first_name (None is the empty string)
ChatKinds ==
    { [title |-> <<"A", "b">>, first_name |-> << >>],
      [title |-> << >>,        first_name |-> <<"b">>],
      [title |-> << >>,        first_name |-> << >>] }

\* the dialogs an account can deliver
Dialogs(acc) == [chat : acc.chats, unread_messages_count : acc.unread]

NoUser == [present |-> FALSE, first_name |-> << >>, username |-> << >>]

\* messages of a history: media without text, a short text from a user with
\* a first name, and a text from a user with only a handle that fills a whole
\* context window on its own
MediaMsg == [text |-> [body |-> << >>, repeat |-> 0], from_user |-> NoUser]
ShortMsg == [text |-> [body |-> <<"x">>, repeat |-> 1],
             from_user |-> [present |-> TRUE, first_name |-> <<"A">>,
                            username |-> << >>]]
LongMsg  == [text |-> [body |-> <<"x">>, repeat |-> MAX_CONTEXT_CHARS],
             from_user |-> [present |-> TRUE, first_name |-> << >>,
                            username |-> <<"b">>]]
SourceMsgs == { MediaMsg, ShortMsg, LongMsg }

\* chat_name = dialog.chat.title or dialog.chat.first_name or "Unknown"
ChatName(chat) ==
    IF chat.title # << >> THEN chat.title
    ELSE IF chat.first_name # << >> THEN chat.first_name
    ELSE Unknown

\* faulty variant: every message counts as text
HasTextAlways(msg) == TRUE

\* if msg.text:
HasText(msg) == TextLen(msg.text) > 0

\* sender = ""; if msg.from_user: sender = first_name or username or ""
SenderOf(msg) ==
    IF msg.from_user.present
    THEN IF msg.from_user.first_name # << >> THEN msg.from_user.first_name
         ELSE IF msg.from_user.username # << >> THEN msg.from_user.username
         ELSE << >>
    ELSE << >>

\* the record appended to a bucket; date identifies the source message
Record(msg, h) ==
    [sender |-> SenderOf(msg), text |-> msg.text,
     date |-> [chat_id |-> h.id, pos |-> h.yielded + 1]]

\* messages_by_chat[chat_name].append(rec) on a defaultdict(list); the dict
\* is the sequence of its items in insertion order
DictAppend(d, name, rec) ==
    IF \E i \in 1..Len(d) : d[i].name = name
    THEN [i \in 1..Len(d) |->
            IF d[i].name = name
            THEN [name |-> name, msgs |-> Append(d[i].msgs, rec)]
            ELSE d[i]]
    ELSE Append(d, [name |-> name, msgs |-> << rec >>])

\* the number of records the dict holds, over all its buckets
AcceptedIn(d) == SumSeq([i \in 1..Len(d) |-> Len(d[i].msgs)])

\* client.get_chat_history(chat_id, limit=n): an iterator over at most n
\* messages; pyrogram reads limit=0 as "no limit"
OpenHistory(id, name, n) == [id |-> id, name |-> name, limit |-> n, yielded |-> 0]

CanYield(h, acc) ==
    (h.limit = 0 \/ h.yielded < h.limit) /\ h.yielded < acc.history

\* the call log after the open history has delivered msg: the last call's
\* count of delivered messages that carry text
Delivered(calls, msg) ==
    [calls EXCEPT ![Len(calls)].with_text =
                      @ + (IF TextLen(msg.text) > 0 THEN 1 ELSE 0)]

----------------------------------------------------------------------------
(* fetch_unread_messages *)

\* faulty variant: > where the code compares with >=
UnreadLimitReachedOffByOne(processed, max_chats, total, max_messages) ==
    processed > max_chats \/ total > max_messages

\* if chats_processed >= max_chats or total_messages >= max_messages: break
UnreadLimitReached(processed, max_chats, total, max_messages) ==
    processed >= max_chats \/ total >= max_messages

\* faulty variant: the per-chat cap of 50 is left out
UnreadCountUncapped(unread, max_messages, total) ==
    Min(unread, max_messages - total)

\* count = min(dialog.unread_messages_count, 50, remaining)
UnreadCount(unread, max_messages, total) ==
    Min(Min(unread, UNREAD_PER_CHAT_CAP), max_messages - total)

\* one iteration of `for dialog in client.get_dialogs()`, up to the inner loop
UnreadDialog ==
    /\ pc = "unread_dialogs"
    /\ \/ /\ pc' = "fetched"          \* the generator is exhausted: return
          /\ UNCHANGED << di, hist, history_calls >>
       \/ /\ di < account.dialogs
          /\ \E dialog \in Dialogs(account) :
               /\ di' = di + 1
               /\ IF dialog.unread_messages_count > 0
                  THEN IF UnreadLimitReached(chats_processed, args.max_chats,
                                             total_messages, args.max_messages)
                       THEN /\ pc' = "fetched"
                            /\ UNCHANGED << hist, history_calls >>
                       ELSE LET chat_name == ChatName(dialog.chat)
                                count == UnreadCount(dialog.unread_messages_count,
                                                     args.max_messages,
                                                     total_messages)
                            IN  /\ hist' = OpenHistory(di + 1, chat_name, count)
                                /\ history_calls' = Append(history_calls,
                                       [id |-> di + 1, name |-> chat_name,
                                        limit |-> count,
                                        unread |-> dialog.unread_messages_count,
                                        accepted |-> AcceptedIn(messages_by_chat),
                                        with_text |-> 0])
                                /\ pc' = "unread_msgs"
                  ELSE UNCHANGED << pc, hist, history_calls >>
    /\ UNCHANGED << mainVars, chunkVars, sumVars, limit, messages_by_chat,
                    chats_processed, total_messages, total_fetched,
                    dialogs_calls, gen_calls >>

\* one iteration of `for msg in client.get_chat_history(...)`, or its end
UnreadMsg ==
    /\ pc = "unread_msgs"
    /\ \/ /\ chats_processed' = chats_processed + 1   \* history exhausted
          /\ hist' = NoHist
          /\ pc' = "unread_dialogs"
          /\ UNCHANGED << messages_by_chat, total_messages, history_calls >>
       \/ /\ CanYield(hist, account)
          /\ \E msg \in account.msgs :
             /\ history_calls' = Delivered(history_calls, msg)
             /\ IF HasText(msg)
               THEN /\ messages_by_chat' =
                          DictAppend(messages_by_chat, hist.name, Record(msg, hist))
                    /\ total_messages' = total_messages + 1
                    /\ IF total_messages + 1 >= args.max_messages
                       THEN /\ chats_processed' = chats_processed + 1  \* break
                            /\ hist' = NoHist
                            /\ pc' = "unread_dialogs"
                       ELSE /\ hist' = [hist EXCEPT !.yielded = @ + 1]
                            /\ UNCHANGED << pc, chats_processed >>
               ELSE /\ hist' = [hist EXCEPT !.yielded = @ + 1]
                    /\ UNCHANGED << pc, messages_by_chat, total_messages,
                                    chats_processed >>
    /\ UNCHANGED << mainVars, chunkVars, sumVars, limit, total_fetched, di,
                    dialogs_calls, gen_calls >>

----------------------------------------------------------------------------
(* fetch_last_messages *)

\* faulty variant: the operands of `in` swapped
FilterRejectsSwapped(chat_filter, chat_name) ==
    chat_filter # << >> /\ ~Contains(Lower(chat_name), Lower(chat_filter))

\* if chat_filter and chat_filter.lower() not in chat_name.lower(): continue
FilterRejects(chat_filter, chat_name) ==
    chat_filter # << >> /\ ~Contains(Lower(chat_filter), Lower(chat_name))

LastDialog ==
    /\ pc = "last_dialogs"
    /\ \/ /\ pc' = "fetched"          \* the generator is exhausted: return
          /\ UNCHANGED << di, hist, history_calls >>
       \/ /\ di < account.dialogs
          /\ \E dialog \in Dialogs(account) :
               /\ di' = di + 1
               /\ IF total_fetched >= limit
                  THEN /\ pc' = "fetched"
                       /\ UNCHANGED << hist, history_calls >>
                  ELSE LET chat_name == ChatName(dialog.chat)
                           remaining == limit - total_fetched
                       IN  IF FilterRejects(args.chat, chat_name)
                           THEN UNCHANGED << pc, hist, history_calls >>
                           ELSE /\ hist' = OpenHistory(di + 1, chat_name, remaining)
                                /\ history_calls' = Append(history_calls,
                                       [id |-> di + 1, name |-> chat_name,
                                        limit |-> remaining, with_text |-> 0])
                                /\ pc' = "last_msgs"
    /\ UNCHANGED << mainVars, chunkVars, sumVars, limit, messages_by_chat,
                    chats_processed, total_messages, total_fetched,
                    dialogs_calls, gen_calls >>

LastMsg ==
    /\ pc = "last_msgs"
    /\ \/ /\ hist' = NoHist                           \* history exhausted
          /\ pc' = "last_dialogs"
          /\ UNCHANGED << messages_by_chat, total_fetched, history_calls >>
       \/ /\ CanYield(hist, account)
          /\ \E msg \in account.msgs :
             /\ history_calls' = Delivered(history_calls, msg)
             /\ IF HasText(msg)
               THEN /\ messages_by_chat' =
                          DictAppend(messages_by_chat, hist.name, Record(msg, hist))
                    /\ total_fetched' = total_fetched + 1
                    /\ IF total_fetched + 1 >= limit
                       THEN /\ hist' = NoHist                          \* break
                            /\ pc' = "last_dialogs"
                       ELSE /\ hist' = [hist EXCEPT !.yielded = @ + 1]
                            /\ UNCHANGED pc
               ELSE /\ hist' = [hist EXCEPT !.yielded = @ + 1]
                    /\ UNCHANGED << pc, messages_by_chat, total_fetched >>
    /\ UNCHANGED << mainVars, chunkVars, sumVars, limit, chats_processed,
                    total_messages, di, dialogs_calls, gen_calls >>

----------------------------------------------------------------------------
(* main(): the dispatch to the selector *)

\* if args.unread: fetch_unread_messages(client, max_chats, max_messages)
\* else: limit = min(args.last, args.max_messages); fetch_last_messages(...)
\* with the prologue of the function called
StartFetch ==
    /\ pc = "with_client"
    /\ ~args.list_chats
    /\ messages_by_chat' = << >>
    /\ di' = 0
    /\ dialogs_calls' = dialogs_calls + 1
    /\ IF args.unread
       THEN /\ chats_processed' = 0
            /\ total_messages' = 0
            /\ pc' = "unread_dialogs"
            /\ UNCHANGED << limit, total_fetched >>
       ELSE /\ limit' = Min(args.last, args.max_messages)
            /\ total_fetched' = 0
            /\ pc' = "last_dialogs"
            /\ UNCHANGED << chats_processed, total_messages >>
    /\ UNCHANGED << mainVars, chunkVars, sumVars, hist, history_calls,
                    gen_calls >>

----------------------------------------------------------------------------
(* The selector on its own: every command line that reaches it *)

Filters == { << >>, <<"a">>, <<"A", "B">>, <<"n">> }

ValidEnv == [api_id |-> "12345", api_hash |-> "abc", session_exists |-> TRUE,
             ollama_up |-> TRUE]

StartupChecks == << "mode", "setup", "ollama" >>

\* In unread mode --last and --chat are never read: they are left at their
\* defaults there.
SelectArgs ==
    { a \in [unread : BOOLEAN, last : -1..MaxLast, chat : Filters,
             list_chats : {FALSE}, max_chats : 0..MaxChats,
             max_messages : 0..MaxMessages] :
        /\ a.unread \/ a.last # 0
        /\ a.unread => (a.last = 0 /\ a.chat = << >>) }

InitSelect ==
    /\ pc = "with_client"
    /\ args \in SelectArgs
    /\ env = ValidEnv
    /\ account = [chats |-> ChatKinds, unread |-> 0..MaxUnread,
                  msgs |-> SourceMsgs, dialogs |-> MaxDialogs,
                  history |-> MaxHistory]
    /\ exit_code = -1
    /\ checks = StartupChecks
    /\ console = << >>
    /\ ChunkIdle /\ SelIdle /\ SumIdle /\ CallIdle

NextSelect == StartFetch \/ UnreadDialog \/ UnreadMsg \/ LastDialog \/ LastMsg

SpecSelect == InitSelect /\ [][NextSelect]_vars

----------------------------------------------------------------------------
(* Claims about the selector *)

\* messages accepted so far, over all buckets
TotalAccepted ==
    SumSeq([i \in 1..Len(messages_by_chat) |-> Len(messages_by_chat[i].msgs)])

InSelector ==
    pc \in {"unread_dialogs", "unread_msgs", "last_dialogs", "last_msgs", "fetched"}

\* C6 as stated: in every state of the selection loop and at its end the
\* accepted messages number at most max-messages, and in last-N mode at most
\* min(N, max-messages).
C6_MessageLimitAsStated ==
    InSelector =>
        /\ TotalAccepted <= args.max_messages
        /\ ~args.unread => TotalAccepted <= Min(args.last, args.max_messages)

\* C6, amended: in every state of the selection loop and at its end the
\* accepted messages number at most max-messages; in last-N mode with N >= 1
\* at most min(N, max-messages), and with a negative N none is accepted (the
\* bound min(N, max-messages) is then negative).
C6_MessageLimit ==
    InSelector =>
        /\ TotalAccepted <= args.max_messages
        /\ args.unread => TotalAccepted = total_messages
        /\ ~args.unread =>
              /\ TotalAccepted = total_fetched
              /\ args.last >= 1 =>
                    TotalAccepted <= Min(args.last, args.max_messages)
              /\ args.last < 0 => TotalAccepted = 0

C6_Witness ==
    /\ pc = "last_msgs"
    /\ args.last = 2
    /\ args.max_messages = 2
    /\ TotalAccepted = 1
    /\ Len(history_calls) = 2
    /\ hist.limit = 1

\* C7: in unread mode and in last-N mode alike, the conversations whose
\* messages are retrieved, and so the conversations of the result, number at
\* most max-conversations.
C7_ConversationLimit ==
    InSelector =>
        /\ Len(history_calls) <= args.max_chats
        /\ Len(messages_by_chat) <= args.max_chats

----------------------------------------------------------------------------
(* The unread selector on an account with more than 50 unread messages in a
   chat, together with the selector runs above *)

CapDialogs == 2     \* dialogs of that account, and --max-chats
CapMargin  == 2     \* --max-messages is the cap of 50 plus this

CapArgs ==
    [unread |-> TRUE, last |-> 0, chat |-> << >>, list_chats |-> FALSE,
     max_chats |-> CapDialogs,
     max_messages |-> UNREAD_PER_CHAT_CAP + CapMargin]

\* every dialog has no unread message or one more than the cap, and a history
\* of text messages long enough to exceed the cap
CapAccount ==
    [chats   |-> { [title |-> <<"A", "b">>, first_name |-> << >>] },
     unread  |-> {0, UNREAD_PER_CHAT_CAP + 1},
     msgs    |-> { ShortMsg },
     dialogs |-> CapDialogs,
     history |-> UNREAD_PER_CHAT_CAP + 1]

InitCap ==
    /\ pc = "with_client"
    /\ args = CapArgs
    /\ env = ValidEnv
    /\ account = CapAccount
    /\ exit_code = -1
    /\ checks = StartupChecks
    /\ console = << >>
    /\ ChunkIdle /\ SelIdle /\ SumIdle /\ CallIdle

InitUnread == InitSelect \/ InitCap

SpecUnread == InitUnread /\ [][NextSelect]_vars

\* the records of all buckets
AllRecords ==
    UNION { { messages_by_chat[i].msgs[k] : k \in 1..Len(messages_by_chat[i].msgs) } :
            i \in 1..Len(messages_by_chat) }

\* the records a source conversation has contributed
ContributedBy(id) == { r \in AllRecords : r.date.chat_id = id }

\* C12: in unread mode messages are retrieved only for conversations with at
\* least one unread message, and the limit passed to the source is
\* min(unread count, 50, max-messages minus the messages accepted so far),
\* which is at least 1; no conversation contributes more than 50 accepted
\* messages, and every accepted message comes from a conversation that had
\* unread messages.
C12_UnreadCap ==
    (args.unread /\ InSelector) =>
        /\ \A i \in 1..Len(history_calls) :
              LET call == history_calls[i]
              IN  /\ call.unread >= 1
                  /\ call.limit >= 1
                  /\ call.limit <= call.unread
                  /\ call.limit <= 50
                  /\ call.limit <= args.max_messages - call.accepted
                  /\ call.limit \in {call.unread, 50,
                                     args.max_messages - call.accepted}
                  /\ Cardinality(ContributedBy(call.id)) <= 50
        /\ \A r \in AllRecords :
              \E i \in 1..Len(history_calls) :
                  /\ history_calls[i].id = r.date.chat_id
                  /\ history_calls[i].unread >= 1

\* the first conversation had 51 unread messages and was retrieved with limit
\* 50, all accepted; the second was retrieved with what was left of
\* --max-messages
C12_Witness ==
    /\ pc = "fetched"
    /\ args = CapArgs
    /\ Len(history_calls) = 2
    /\ history_calls[1].unread = 51
    /\ history_calls[1].limit = 50
    /\ Cardinality(ContributedBy(1)) = 50
    /\ history_calls[2].limit = args.max_messages - 50
    /\ AcceptedIn(messages_by_chat) = args.max_messages

\* two characters that are the same letter, whatever their case
CasePairs == { {"A", "a"}, {"B", "b"}, {"U", "u"} }
SameLetter(c, d) == c = d \/ {c, d} \in CasePairs

ContainsIgnoringCase(needle, hay) ==
    \E k \in 0..(Len(hay) - Len(needle)) :
        \A j \in 1..Len(needle) : SameLetter(needle[j], hay[k + j])

\* C8: in last-N mode with a non-empty name filter, every conversation of the
\* result and every conversation whose messages were retrieved has a name that
\* contains the filter, ignoring case.
C8_FilterCorrectness ==
    (InSelector /\ ~args.unread /\ args.chat # << >>) =>
        /\ \A i \in 1..Len(messages_by_chat) :
              ContainsIgnoringCase(args.chat, messages_by_chat[i].name)
        /\ \A i \in 1..Len(history_calls) :
              ContainsIgnoringCase(args.chat, history_calls[i].name)

C8_Witness ==
    /\ pc = "fetched"
    /\ ~args.unread
    /\ args.chat = <<"A", "B">>
    /\ Len(messages_by_chat) = 1
    /\ messages_by_chat[1].name = <<"A", "b">>
    /\ di = 3
    /\ Len(history_calls) = 1
    /\ history_calls[1].id = 2

\* the counter the selector in use keeps of the messages it has accepted
AcceptedCounter == IF args.unread THEN total_messages ELSE total_fetched

\* in both modes: every record in a bucket has a non-empty body, each
\* conversation has contributed as many records as its history delivered
\* messages with text, and the counter is the number of records
TextOnlyState ==
    InSelector =>
        /\ \A r \in AllRecords : TextLen(r.text) > 0
        /\ \A i \in 1..Len(history_calls) :
              Cardinality(ContributedBy(history_calls[i].id)) =
                  history_calls[i].with_text
        /\ AcceptedCounter = TotalAccepted

\* a step of the inner loop in which the history delivers a message without
\* text
DeliversNoText ==
    /\ pc \in {"unread_msgs", "last_msgs"}
    /\ hist'.id = hist.id
    /\ hist'.yielded = hist.yielded + 1
    /\ history_calls'[Len(history_calls)].with_text =
           history_calls[Len(history_calls)].with_text

NoTextFrame ==
    DeliversNoText =>
        UNCHANGED << messages_by_chat, total_messages, total_fetched,
                     chats_processed >>

\* C13: in both modes a source message is appended to its conversation's
\* bucket exactly when it has non-empty text; a message without text leaves
\* every bucket and the accepted counter unchanged, and no bucket ever holds a
\* record with an empty body.
C13_TextOnly == []TextOnlyState /\ [][NoTextFrame]_vars

\* an unread history has delivered a message without text and one with text:
\* one record, counter 1
C13_Witness ==
    /\ pc = "unread_msgs"
    /\ hist.yielded = 2
    /\ history_calls[Len(history_calls)].with_text = 1
    /\ total_messages = 1
    /\ TotalAccepted = 1

\* the source conversations of a display name that have contributed a record
ContributorsOf(name) ==
    { history_calls[i].id : i \in { j \in 1..Len(history_calls) :
                                      /\ history_calls[j].name = name
                                      /\ history_calls[j].with_text > 0 } }

\* C14: when two source conversations visited in one run resolve to the same
\* display name, the bucket stored under that name holds the accepted
\* messages of the last of them only, never a mixture of both.
C14_LastSeenWins ==
    InSelector =>
        \A i \in 1..Len(messages_by_chat) :
            LET bucket == messages_by_chat[i]
            IN  \A k \in 1..Len(bucket.msgs) :
                    \A id \in ContributorsOf(bucket.name) :
                        id <= bucket.msgs[k].date.chat_id

----------------------------------------------------------------------------
(* Summaries and prompts *)

Whitespace == { " ", "\n" }

RECURSIVE LStrip(_)
LStrip(s) == IF s # << >> /\ Head(s) \in Whitespace THEN LStrip(Tail(s)) ELSE s

RECURSIVE RStrip(_)
RStrip(s) ==
    IF s # << >> /\ s[Len(s)] \in Whitespace
    THEN RStrip(SubSeq(s, 1, Len(s) - 1))
    ELSE s

\* s.strip()
Strip(s) == RStrip(LStrip(s))

\* sep.join(parts)
RECURSIVE Join(_, _)
Join(sep, parts) ==
    IF parts = << >> THEN << >>
    ELSE IF Len(parts) = 1 THEN parts[1]
    ELSE parts[1] \o sep \o Join(sep, Tail(parts))

\* format_messages_for_llm, line by line; a line is the sequence of its pieces
FormatMessagesForLLM(batch, chat_name) ==
    << <<"Chat: ", chat_name>>, <<"Messages:">> >> \o
    [i \in 1..Len(batch) |->
        IF batch[i].sender # << >>
        THEN <<"- ", batch[i].sender, ": ", batch[i].text>>
        ELSE <<"- ", batch[i].text>>]

\* the prompt summarize_with_ollama builds around the formatted messages
SummarizePrompt(batch, chat_name) ==
    [kind |-> "summarize", text |-> FormatMessagesForLLM(batch, chat_name)]

CombineHeader == "Combine these summaries into one concise summary in Russian:\n\n"
CombineFooter == "\n\nFinal summary:"

\* faulty variant: the partial summaries joined newest first
CombinedReversed(parts) ==
    Join(<<"\n", "\n">>, [i \in 1..Len(parts) |-> parts[Len(parts) + 1 - i]])

\* combined = "\n\n".join(summaries)
Combined(parts) == Join(<<"\n", "\n">>, parts)

\* final_prompt: the header and the footer are one piece each, the combined
\* summaries are spelled out character by character
CombinePrompt(parts) ==
    [kind |-> "combine",
     text |-> <<CombineHeader>> \o Combined(parts) \o <<CombineFooter>>]

\* faulty variant: a single summary is combined too
NeedsCombineAlways(parts) == Len(parts) >= 1

\* if len(summaries) > 1:
NeedsCombine(parts) == Len(parts) > 1

\* what ollama.generate returns in response['response'], or that it raised
Responses == { <<"a", " ">>, <<"\n", "b">> }
GenError  == <<"raised">>

\* faulty variant: a new key goes to the front of the dict
DictSetInFront(d, name, value) ==
    IF \E i \in 1..Len(d) : d[i].name = name
    THEN [i \in 1..Len(d) |->
            IF d[i].name = name THEN [name |-> name, value |-> value] ELSE d[i]]
    ELSE << [name |-> name, value |-> value] >> \o d

\* results[chat_name] = value on a dict kept as its items in insertion order
DictSet(d, name, value) ==
    IF \E i \in 1..Len(d) : d[i].name = name
    THEN [i \in 1..Len(d) |->
            IF d[i].name = name THEN [name |-> name, value |-> value] ELSE d[i]]
    ELSE Append(d, [name |-> name, value |-> value])

----------------------------------------------------------------------------
(* main(): startup *)

\* faulty variant: the mode is never checked
ModeMissingNever(a) == FALSE

\* if not args.unread and not args.last and not args.list_chats:
ModeMissing(a) == ~a.unread /\ a.last = 0 /\ ~a.list_chats

Validate ==
    /\ pc = "start"
    /\ IF ModeMissing(args)
       THEN /\ console' = Append(console, "usage")
            /\ exit_code' = 1
            /\ pc' = "exited"
            /\ UNCHANGED checks
       ELSE /\ checks' = Append(checks, "mode")
            /\ pc' = "check_setup"
            /\ UNCHANGED << console, exit_code >>
    /\ UNCHANGED << args, env, account, chunkVars, selVars, sumVars, callVars >>

\* if not api_id or not api_hash or api_id == "your_api_id_here":
ApiMissing(e) == e.api_id = "" \/ e.api_hash = "" \/ e.api_id = "your_api_id_here"

\* check_setup()
CheckSetup ==
    /\ pc = "check_setup"
    /\ IF ApiMissing(env)
       THEN /\ console' = Append(console, "Error: Telegram API not configured.")
            /\ exit_code' = 1
            /\ pc' = "exited"
            /\ UNCHANGED checks
       ELSE IF ~env.session_exists
       THEN /\ console' = Append(console, "Error: Telegram session not found.")
            /\ exit_code' = 1
            /\ pc' = "exited"
            /\ UNCHANGED checks
       ELSE /\ checks' = Append(checks, "setup")
            /\ pc' = "check_ollama"
            /\ UNCHANGED << console, exit_code >>
    /\ UNCHANGED << args, env, account, chunkVars, selVars, sumVars, callVars >>

\* check_ollama(), then get_telegram_client and `with client:`
CheckOllama ==
    /\ pc = "check_ollama"
    /\ IF ~env.ollama_up
       THEN /\ console' = Append(console, "Error: Cannot connect to Ollama.")
            /\ exit_code' = 1
            /\ pc' = "exited"
            /\ UNCHANGED checks
       ELSE /\ checks' = Append(checks, "ollama")
            /\ pc' = "with_client"
            /\ UNCHANGED << console, exit_code >>
    /\ UNCHANGED << args, env, account, chunkVars, selVars, sumVars, callVars >>

\* if args.list_chats: for dialog in client.get_dialogs(limit=50): print; return
ListChats ==
    /\ pc = "with_client"
    /\ args.list_chats
    /\ dialogs_calls' = dialogs_calls + 1
    /\ console' = Append(console, "Available chats:")
    /\ exit_code' = 0
    /\ pc' = "exited"
    /\ UNCHANGED << args, env, account, checks, chunkVars, selVars, sumVars,
                    history_calls, gen_calls >>

----------------------------------------------------------------------------
(* main(): after the selector, and summarize_chat *)

\* if not messages_by_chat: print("No messages found."); return
AfterFetch ==
    /\ pc = "fetched"
    /\ IF messages_by_chat = << >>
       THEN /\ console' = Append(console, "No messages found.")
            /\ exit_code' = 0
            /\ pc' = "exited"
            /\ UNCHANGED << si, results >>
       ELSE /\ console' = Append(console, "Found")
            /\ results' = << >>
            /\ si' = 1
            /\ pc' = "summarize"
            /\ UNCHANGED exit_code
    /\ UNCHANGED << args, env, account, checks, chunkVars, selVars, s_chunks, bi,
                    summaries, reported, failed, callVars >>

\* for chat_name, messages in messages_by_chat.items(): the next item enters
\* summarize_chat (chunks = chunk_messages(messages)); after the last one,
\* display_results(results, ...) and main returns
SummarizeNext ==
    /\ pc = "summarize"
    /\ IF si > Len(messages_by_chat)
       THEN /\ reported' = Append(reported, results)
            /\ exit_code' = 0
            /\ pc' = "exited"
            /\ UNCHANGED << s_chunks, bi, summaries >>
       ELSE /\ s_chunks' = ChunkMessages(messages_by_chat[si].msgs,
                                         MAX_CONTEXT_CHARS)
            /\ summaries' = << >>
            /\ bi' = 1
            /\ pc' = "batches"
            /\ UNCHANGED << reported, exit_code >>
    /\ UNCHANGED << args, env, account, checks, console, chunkVars, selVars, si,
                    results, failed, callVars >>

\* for chunk in chunks: summaries.append(summarize_with_ollama(text, model));
\* an exception of ollama.generate is caught nowhere and ends the process
GenerateBatch ==
    /\ pc = "batches"
    /\ bi <= Len(s_chunks)
    /\ LET chat_name == messages_by_chat[si].name
           prompt == SummarizePrompt(s_chunks[bi], chat_name)
       IN  \E response \in Responses \cup {GenError} :
             /\ gen_calls' = Append(gen_calls,
                    [conv |-> si, prompt |-> prompt, response |-> response])
             /\ IF response = GenError
                THEN /\ failed' = Append(failed, chat_name)
                     /\ exit_code' = 1
                     /\ pc' = "exited"
                     /\ UNCHANGED << summaries, bi >>
                ELSE /\ summaries' = Append(summaries, Strip(response))
                     /\ bi' = bi + 1
                     /\ UNCHANGED << failed, exit_code, pc >>
    /\ UNCHANGED << args, env, account, checks, console, chunkVars, selVars, si,
                    s_chunks, results, reported, dialogs_calls, history_calls >>

\* the rest of summarize_chat (the combining call when there are several
\* summaries) and results[chat_name] = {"count": ..., "summary": ...}
FinishChat ==
    /\ pc = "batches"
    /\ bi > Len(s_chunks)
    /\ LET chat_name == messages_by_chat[si].name
           count == Len(messages_by_chat[si].msgs)
       IN  IF NeedsCombine(summaries)
           THEN \E response \in Responses \cup {GenError} :
                  /\ gen_calls' = Append(gen_calls,
                         [conv |-> si, prompt |-> CombinePrompt(summaries),
                          response |-> response])
                  /\ IF response = GenError
                     THEN /\ failed' = Append(failed, chat_name)
                          /\ exit_code' = 1
                          /\ pc' = "exited"
                          /\ UNCHANGED << results, si >>
                     ELSE /\ results' = DictSet(results, chat_name,
                                 [count |-> count,
                                  summary |-> Join(<<"\n">>, <<Strip(response)>>)])
                          /\ si' = si + 1
                          /\ pc' = "summarize"
                          /\ UNCHANGED << failed, exit_code >>
           ELSE /\ results' = DictSet(results, chat_name,
                       [count |-> count, summary |-> Join(<<"\n">>, summaries)])
                /\ si' = si + 1
                /\ pc' = "summarize"
                /\ UNCHANGED << failed, exit_code, gen_calls >>
    /\ UNCHANGED << args, env, account, checks, console, chunkVars, selVars, s_chunks,
                    bi, summaries, reported, dialogs_calls, history_calls >>

----------------------------------------------------------------------------
(* A whole run of main() *)

RunDialogs  == 2    \* dialogs of the account, and --max-chats
RunMessages == 2    \* longest history, and --max-messages and --last

Envs == [api_id : {"", "your_api_id_here", "12345"}, api_hash : {"", "abc"},
         session_exists : BOOLEAN, ollama_up : BOOLEAN]

\* --last absent is 0, which the code cannot tell from --last 0
RunArgs ==
    { a \in [unread : BOOLEAN, last : {0, RunMessages}, chat : {<< >>, <<"a">>},
             list_chats : BOOLEAN, max_chats : {RunDialogs},
             max_messages : {RunMessages}] :
        a.unread => a.chat = << >> }

\* two chats with different names; every unread dialog has RunMessages unread
RunAccount ==
    [chats   |-> { [title |-> <<"A", "b">>, first_name |-> << >>],
                   [title |-> << >>,        first_name |-> <<"b">>] },
     unread  |-> {0, RunMessages},
     msgs    |-> SourceMsgs,
     dialogs |-> RunDialogs,
     history |-> RunMessages]

Init ==
    /\ pc = "start"
    /\ args \in RunArgs
    /\ env \in Envs
    /\ account = RunAccount
    /\ exit_code = -1
    /\ checks = << >>
    /\ console = << >>
    /\ ChunkIdle /\ SelIdle /\ SumIdle /\ CallIdle

Next ==
    \/ Validate \/ CheckSetup \/ CheckOllama \/ ListChats
    \/ StartFetch \/ UnreadDialog \/ UnreadMsg \/ LastDialog \/ LastMsg
    \/ AfterFetch \/ SummarizeNext \/ GenerateBatch \/ FinishChat

Spec == Init /\ [][Next]_vars


----------------------------------------------------------------------------
(* Claims about summarize_chat and main() *)

\* the generation calls issued for the j-th conversation, in order
CallsOf(j) == LET ForConv(c) == c.conv = j IN SelectSeq(gen_calls, ForConv)

\* the value stored under a name in a dict
ValueOf(d, name) == (CHOOSE e \in { d[i] : i \in 1..Len(d) } : e.name = name).value

HasKey(d, name) == \E i \in 1..Len(d) : d[i].name = name

\* the j-th conversation has been summarised and its result stored
Completed(j) ==
    /\ pc \in {"summarize", "batches", "exited"}
    /\ j \in 1..Len(messages_by_chat)
    /\ j < si

BatchesOf(j) == ChunkMessages(messages_by_chat[j].msgs, MAX_CONTEXT_CHARS)

\* parts occur in text one after another, without overlap, from position from
RECURSIVE OccurInOrder(_, _, _)
OccurInOrder(parts, text, from) ==
    \/ parts = << >>
    \/ \E k \in from..(Len(text) - Len(Head(parts)) + 1) :
          /\ SubSeq(text, k, k + Len(Head(parts)) - 1) = Head(parts)
          /\ OccurInOrder(Tail(parts), text, k + Len(Head(parts)))

\* C4: single-batch shortcut.  A conversation whose bucket is one batch gets
\* exactly one generation call, a per-batch call and no combining call, and
\* its final summary is the output of that call.
C4_SingleBatchShortcut ==
    \A j \in 1..Len(messages_by_chat) :
        (Completed(j) /\ Len(BatchesOf(j)) = 1) =>
            LET calls == CallsOf(j)
                name  == messages_by_chat[j].name
            IN  /\ Len(calls) = 1
                /\ calls[1].prompt = SummarizePrompt(BatchesOf(j)[1], name)
                /\ HasKey(results, name)
                /\ ValueOf(results, name).summary = Strip(calls[1].response)

C4_Witness ==
    /\ pc = "exited"
    /\ reported = << results >>
    /\ Len(messages_by_chat) = 1
    /\ Len(messages_by_chat[1].msgs) = 2
    /\ Len(BatchesOf(1)) = 1
    /\ Len(gen_calls) = 1

\* C5: multi-batch combining.  A conversation whose bucket is k > 1 batches
\* gets exactly k + 1 generation calls: one per batch, in batch order, then one
\* combining call whose prompt contains every partial summary, in batch order;
\* its final summary is the output of the combining call alone.
C5_MultiBatchCombining ==
    \A j \in 1..Len(messages_by_chat) :
        (Completed(j) /\ Len(BatchesOf(j)) > 1) =>
            LET calls == CallsOf(j)
                name  == messages_by_chat[j].name
                k     == Len(BatchesOf(j))
            IN  /\ Len(calls) = k + 1
                /\ \A b \in 1..k :
                      calls[b].prompt = SummarizePrompt(BatchesOf(j)[b], name)
                /\ calls[k + 1].prompt.kind = "combine"
                /\ OccurInOrder([b \in 1..k |-> Strip(calls[b].response)],
                                calls[k + 1].prompt.text, 1)
                /\ HasKey(results, name)
                /\ ValueOf(results, name).summary = Strip(calls[k + 1].response)

C5_Witness ==
    /\ pc = "exited"
    /\ reported = << results >>
    /\ Len(messages_by_chat) = 1
    /\ Len(BatchesOf(1)) = 2
    /\ Len(gen_calls) = 3
    /\ gen_calls[1].response # gen_calls[2].response
    /\ gen_calls[3].response # gen_calls[2].response

\* C9: generation-failure containment.  When a generation call has failed
\* during a conversation, the process does not end in error: the run goes on
\* and ends with the results of the conversations completed before the
\* failure handed to the Reporter, the failed conversation left out.
C9_FailureContained ==
    (failed # << >> /\ pc = "exited") =>
        /\ exit_code = 0
        /\ Len(reported) = 1
        /\ \A j \in 1..Len(messages_by_chat) :
              LET name == messages_by_chat[j].name
              IN  IF \E f \in 1..Len(failed) : failed[f] = name
                  THEN ~HasKey(reported[1], name)
                  ELSE HasKey(reported[1], name)

MessageSourceCalls == dialogs_calls + Len(history_calls)

CredentialsMissing == ApiMissing(env) \/ ~env.session_exists

\* no collaborator has been called, and the run has not ended with status 0
NoCallsNoSuccess ==
    /\ MessageSourceCalls = 0
    /\ gen_calls = << >>
    /\ pc = "exited" => exit_code = 1

\* the run is still in the startup phase or has ended there
InStartup == pc \in {"start", "check_setup", "check_ollama", "exited"}

\* no message-source call unless the three startup checks passed, in order
StartupOrdering == MessageSourceCalls > 0 => checks = StartupChecks

FirstAccepted(j) == messages_by_chat[j].msgs[1].date

\* C15: in a run without a generation failure the results handed to
\* display_results hold exactly one entry per conversation of the selector's
\* mapping, in the mapping's order (the order in which the names first
\* received a message), each with the size of the conversation's bucket, at
\* least 1, as its count and the output of the last generation call issued for
\* the conversation as its summary; the calls of one conversation all precede
\* the calls of the next.
C15_ResultMapping ==
    /\ \A a \in 1..Len(gen_calls) : \A b \in a..Len(gen_calls) :
           gen_calls[a].conv <= gen_calls[b].conv
    /\ \A r \in 1..Len(reported) :
           LET shown == reported[r]
           IN  /\ failed = << >>
               /\ Len(reported) = 1
               /\ Len(shown) = Len(messages_by_chat)
               /\ \A j \in 1..Len(shown) :
                     /\ shown[j].name = messages_by_chat[j].name
                     /\ \A k \in 1..Len(shown) :
                            shown[k].name = shown[j].name => k = j
                     /\ shown[j].value.count = Len(messages_by_chat[j].msgs)
                     /\ shown[j].value.count >= 1
                     /\ CallsOf(j) # << >>
                     /\ shown[j].value.summary =
                            Strip(CallsOf(j)[Len(CallsOf(j))].response)
                     /\ j > 1 =>
                            FirstAccepted(j - 1).chat_id < FirstAccepted(j).chat_id

\* two conversations, one message each, were summarised with different
\* responses and reported
C15_Witness ==
    /\ pc = "exited"
    /\ Len(reported) = 1
    /\ Len(reported[1]) = 2
    /\ reported[1][2].value.count = 1
    /\ Len(CallsOf(1)) = 1
    /\ Len(CallsOf(2)) = 1
    /\ gen_calls[1].response # gen_calls[2].response

----------------------------------------------------------------------------
(* chunk_messages on its own together with whole runs of main() *)

InitAll == InitChunk \/ Init

NextAll == NextChunk \/ Next

SpecAll == InitAll /\ [][NextAll]_vars

\* the selector has returned and main() has ended
RunEndedAfterSelector ==
    /\ pc = "exited"
    /\ checks = StartupChecks
    /\ ~args.list_chats

Printed(line) == \E i \in 1..Len(console) : console[i] = line

\* C11: empty input.  chunk_messages returns no batch at all for an empty
\* bucket, whatever the budget, and never returns (or hands to the generator)
\* an empty batch.  When the selector returns an empty mapping, the run prints
\* "No messages found.", issues no generation call, reports nothing and exits
\* with status 0; that line is printed in no other run.
C11_EmptyInput ==
    /\ (pc = "chunk_done" /\ messages = << >>) => chunks = << >>
    /\ pc = "chunk_done" => \A b \in 1..Len(chunks) : chunks[b] # << >>
    /\ \A b \in 1..Len(s_chunks) : s_chunks[b] # << >>
    /\ (RunEndedAfterSelector /\ messages_by_chat = << >>) =>
          /\ console = << "No messages found." >>
          /\ gen_calls = << >>
          /\ reported = << >>
          /\ exit_code = 0
    /\ Printed("No messages found.") =>
          (RunEndedAfterSelector /\ messages_by_chat = << >>)

\* a run whose only retrieved conversation held nothing but media
C11_Witness ==
    /\ RunEndedAfterSelector
    /\ messages_by_chat = << >>
    /\ Len(history_calls) = 1
    /\ Printed("No messages found.")
    /\ exit_code = 0

=============================================================================
